---- MODULE Spec2Model ----
(***************************************************************************)
(* State-machine model of the geofenced attendance enforcer:               *)
(*   - the live-location tracker (bot: saveEmployeeLocation, the sweeper), *)
(*   - the geofence validator (util/locationValidation.ts),                *)
(*   - the auto-clock-out monitor (services/location-monitoring.service),  *)
(*   - the human clock-in/out reducer (util/functions/clockInOrOut.ts).    *)
(*                                                                         *)
(* Time is in whole seconds counted from 00:00 UTC of day 1 of the current *)
(* month. Worked hours are kept in seconds (the code's fractional hours    *)
(* times 3600), so that sums and differences stay exact.                   *)
(***************************************************************************)
EXTENDS Integers, Sequences, FiniteSets, TLC

VARIABLES
    now,          \* the wall clock (Date.now(), dayjs.utc())
    emp,          \* store: employee documents
    att,          \* store: attendance documents of the current month
    locationLogs, \* store: employee/{id}/locationLogs, per employee
    liveSessions, \* bot: the in-memory live-session registry
    handlers,     \* bot: in-flight handleLocationMessage calls
    delivered,    \* number of location events the transport has delivered
    sweepAt,      \* bot: the sweeper's setInterval, time of its next firing
    sweep,        \* bot: the sweeper pass in flight
    isRunning,    \* monitor: LocationMonitoringService.isRunning
    intervalId,   \* monitor: the setInterval timer, time of its next firing
    warmups,      \* monitor: pending setTimeout warm-up timers (deadlines)
    tick,         \* monitor: the runLocationCheck in flight
    sent,         \* chat messages sent by sendNotifications
    budget,       \* calls left to the environment (start/stop, human ops)
    hist          \* history: what the last operations did (for the properties)

vars == <<now, emp, att, locationLogs, liveSessions, handlers, delivered,
          sweepAt, sweep, isRunning, intervalId, warmups, tick, sent, budget,
          hist>>

-----------------------------------------------------------------------------
(* Constants of the program                                                *)

\* null / undefined for a timestamp field (every real timestamp is >= 0)
Null == 0 - 1

SecPerMin == 60
SecPerDay == 24 * 60 * SecPerMin

CHECK_INTERVAL_MINUTES == 5
MAX_LOCATION_AGE_MINUTES == 10
\* setTimeout(..., 30000)
WarmUpDelay == 30
\* setInterval(..., 60000) of the sweeper
SweepPeriod == 60
\* LIVE_GRACE_MS = 2 * 60 * 1000
LIVE_GRACE == 2 * SecPerMin

-----------------------------------------------------------------------------
(* Bounds of the model                                                     *)

\* the clock advances in steps of at most Granule seconds, never past a timer
Granule == 30
\* time steps explored by the monitor, the tracker and the combined system
MonitorSteps == 11
LiveSteps == 6
StaleSteps == 22
\* location events delivered by the chat transport (tracker, combined system)
MaxEvents == 2
StaleEvents == 1
\* time steps explored around the end of a month, and the days of that month
RolloverSteps == 11
PairSteps == 11
OverlapSteps == 11
ContextSteps == 3
DaysInMonth == 30
\* human clock-ins / clock-outs, and start/stop calls
MaxHumanOps == 2
MaxStartStop == 2

\* the service comes up one minute before a UTC midnight
StartTime == SecPerDay - 2 * WarmUpDelay

Employees == {"e1"}
\* chat ids: telegramChatID of e1 is "c1"
ChatOf(e) == "c1"
MessageIds == {"m1", "m2"}

Min(a, b) == IF a <= b THEN a ELSE b
Max(a, b) == IF a >= b THEN a ELSE b

\* time runs from the start of a month (month 0) into the next one
SecPerMonth == DaysInMonth * SecPerDay
\* the (year, month) of a time, as one number
MonthOf(t) == t \div SecPerMonth
\* dayjs.utc(t).date(): the UTC day of the month
DateOf(t) == ((t % SecPerMonth) \div SecPerDay) + 1
\* a.diff(b, 'minute'): whole minutes, truncated
DiffMinutes(a, b) == (a - b) \div SecPerMin

-----------------------------------------------------------------------------
(* Polygon engine: util/locationValidation.ts                              *)

\* JSON values, tagged: numbers, arrays, and anything else
Num(n) == [t |-> "num", v |-> n]
Arr(s) == [t |-> "arr", v |-> s]
Pt(x, y) == Arr(<<Num(x), Num(y)>>)
IsArr(j) == j.t = "arr"
IsNum(j) == j.t = "num"

SquareRing == Arr(<<Pt(0, 0), Pt(10, 0), Pt(10, 10), Pt(0, 10)>>)
FarRing == Arr(<<Pt(20, 0), Pt(30, 0), Pt(30, 10), Pt(20, 10)>>)
HoleRing == Arr(<<Pt(4, 4), Pt(6, 4), Pt(6, 6), Pt(4, 6)>>)

\* The working-area strings of the model. json = FALSE: JSON.parse throws.
WorkingAreaText(w) ==
    CASE w = "single" -> [json |-> TRUE, val |-> Arr(<<SquareRing>>)]
      [] w = "holed"  -> [json |-> TRUE, val |-> Arr(<<SquareRing, HoleRing>>)]
      [] w = "multi1" -> [json |-> TRUE, val |-> Arr(<<Arr(<<SquareRing>>)>>)]
      [] w = "multi2" -> [json |-> TRUE,
                          val |-> Arr(<<Arr(<<FarRing>>), Arr(<<SquareRing>>)>>)]
      [] w = "short"  -> [json |-> TRUE,
                          val |-> Arr(<<Arr(<<Pt(0, 0), Pt(10, 0)>>)>>)]
      [] w = "number" -> [json |-> TRUE, val |-> Num(7)]
      [] OTHER        -> [json |-> FALSE, val |-> Num(0)]

WorkingAreas ==
    {"", "single", "holed", "multi1", "multi2", "short", "number", "garbage"}

ValidCoord(c) == IsArr(c) /\ Len(c.v) = 2 /\ IsNum(c.v[1]) /\ IsNum(c.v[2])
ValidRing(r) ==
    IsArr(r) /\ Len(r.v) >= 3 /\ \A i \in 1..Len(r.v) : ValidCoord(r.v[i])
ValidPolygon(p) ==
    IsArr(p) /\ Len(p.v) > 0 /\ \A i \in 1..Len(p.v) : ValidRing(p.v[i])

\* the untagged multi-polygon: polygons of rings of <<x, y>>
PlainRing(r) == [i \in 1..Len(r.v) |-> <<r.v[i].v[1].v, r.v[i].v[2].v>>]
PlainPolygon(p) == [i \in 1..Len(p.v) |-> PlainRing(p.v[i])]

NoArea == [ok |-> FALSE, polygons |-> <<>>]

parseWorkingArea(w) ==
    LET text == WorkingAreaText(w)
        parsed == text.val
    IN  IF ~text.json THEN NoArea
        ELSE IF ~IsArr(parsed) \/ Len(parsed.v) = 0 THEN NoArea
        ELSE LET single == /\ Len(parsed.v) = 1
                           /\ IsArr(parsed.v[1])
                           /\ Len(parsed.v[1].v) > 0
                           /\ IsArr(parsed.v[1].v[1])
                 polygons == IF single THEN <<parsed>> ELSE parsed.v
             IN  IF \A i \in 1..Len(polygons) : ValidPolygon(polygons[i])
                 THEN [ok |-> TRUE,
                       polygons |-> [i \in 1..Len(polygons) |->
                                        PlainPolygon(polygons[i])]]
                 ELSE NoArea

\* edge (j, i) of the ring toggles `inside`
EdgeCrosses(x, y, pi, pj) ==
    LET xi == pi[1]
        yi == pi[2]
        xj == pj[1]
        yj == pj[2]
        d == yj - yi
    IN  /\ (yi > y) # (yj > y)
        \* x < (xj - xi) * (y - yi) / (yj - yi) + xi, without the division
        /\ IF d > 0 THEN (x - xi) * d < (xj - xi) * (y - yi)
                    ELSE (x - xi) * d > (xj - xi) * (y - yi)

\* a ray cast that leaves out the edge from the last vertex to the first
isPointInPolygonOpen(point, polygon) ==
    LET n == Len(polygon)
        crossing == {i \in 2..n :
                        EdgeCrosses(point[1], point[2], polygon[i], polygon[i - 1])}
    IN  Cardinality(crossing) % 2 = 1

isPointInPolygon(point, polygon) ==
    LET n == Len(polygon)
        prev(i) == IF i = 1 THEN n ELSE i - 1
        crossing == {i \in 1..n :
                        EdgeCrosses(point[1], point[2], polygon[i], polygon[prev(i)])}
    IN  Cardinality(crossing) % 2 = 1

\* a containment test that takes the rings after the first as holes
isPointInMultiPolygonHoles(point, multiPolygon) ==
    \E k \in 1..Len(multiPolygon) :
        /\ Len(multiPolygon[k]) > 0
        /\ isPointInPolygon(point, multiPolygon[k][1])
        /\ \A h \in 2..Len(multiPolygon[k]) :
                ~isPointInPolygon(point, multiPolygon[k][h])

isPointInMultiPolygon(point, multiPolygon) ==
    \E k \in 1..Len(multiPolygon) :
        /\ Len(multiPolygon[k]) > 0
        /\ Len(multiPolygon[k][1]) > 0
        /\ isPointInPolygon(point, multiPolygon[k][1])

-----------------------------------------------------------------------------
(* Location validator: validateEmployeeLocationAndArea                     *)

\* currentLocation = null
NoLocation == [present |-> FALSE]

\* The verdicts. `error` is the message as the words that the monitor's
\* `includes` tests look at; `kind` names the branch that produced it.
MsgNoLocation == <<"No", "location", "data", "available">>
MsgEnded == <<"Location", "sharing", "has", "ended">>
MsgBadArea == <<"Invalid", "working", "area", "configuration">>
MsgOutside == <<"You", "are", "outside", "your", "designated", "working", "area">>
MsgStale(age) == <<"Location", "data", "is", "too", "old", ToString(age), "minutes">>
MsgNotLive == <<"Location", "sharing", "is", "not", "active">>

\* a result that never carries an error message
VerdictWithoutError(valid, kind, error, age, live) ==
    [isValid |-> valid, kind |-> kind, error |-> <<>>, locationAge |-> age,
     isLive |-> live]

Verdict(valid, kind, error, age, live) ==
    [isValid |-> valid, kind |-> kind, error |-> error, locationAge |-> age,
     isLive |-> live]

\* a validator for which a share is still live at the instant liveUntil
validateLiveAtExpiry(loc, workingArea, maxAgeMinutes, t) ==
    IF ~loc.present THEN
        Verdict(FALSE, "NO_LOCATION", MsgNoLocation, Null, "null")
    ELSE IF loc.endedAt # Null THEN
        Verdict(FALSE, "SHARING_ENDED", MsgEnded, Null, "null")
    ELSE
        LET ageMinutes == DiffMinutes(t, loc.updatedAt)
            isLive == loc.isLive /\ (loc.liveUntil = Null \/ t <= loc.liveUntil)
        IN  IF isLive THEN
                LET parsedArea == parseWorkingArea(workingArea)
                IN  IF ~parsedArea.ok THEN
                        Verdict(FALSE, "BAD_WORKING_AREA", MsgBadArea, ageMinutes, "true")
                    ELSE IF ~isPointInMultiPolygon(<<loc.longitude, loc.latitude>>,
                                                   parsedArea.polygons) THEN
                        Verdict(FALSE, "OUTSIDE_AREA", MsgOutside, ageMinutes, "true")
                    ELSE
                        Verdict(TRUE, "NONE", <<>>, ageMinutes, "true")
            ELSE IF ageMinutes > maxAgeMinutes THEN
                Verdict(FALSE, "STALE_LOCATION", MsgStale(ageMinutes), ageMinutes, "false")
            ELSE
                Verdict(FALSE, "NOT_LIVE", MsgNotLive, ageMinutes, "false")

\* lines 219-324
validateEmployeeLocationAndArea(loc, workingArea, maxAgeMinutes, t) ==
    IF ~loc.present THEN
        Verdict(FALSE, "NO_LOCATION", MsgNoLocation, Null, "null")
    ELSE IF loc.endedAt # Null THEN
        Verdict(FALSE, "SHARING_ENDED", MsgEnded, Null, "null")
    ELSE
        LET ageMinutes == DiffMinutes(t, loc.updatedAt)
            isLive == loc.isLive /\ (loc.liveUntil = Null \/ t < loc.liveUntil)
        IN  IF isLive THEN
                LET parsedArea == parseWorkingArea(workingArea)
                IN  IF ~parsedArea.ok THEN
                        Verdict(FALSE, "BAD_WORKING_AREA", MsgBadArea, ageMinutes, "true")
                    ELSE IF ~isPointInMultiPolygon(<<loc.longitude, loc.latitude>>,
                                                   parsedArea.polygons) THEN
                        Verdict(FALSE, "OUTSIDE_AREA", MsgOutside, ageMinutes, "true")
                    ELSE
                        Verdict(TRUE, "NONE", <<>>, ageMinutes, "true")
            ELSE IF ageMinutes > maxAgeMinutes THEN
                Verdict(FALSE, "STALE_LOCATION", MsgStale(ageMinutes), ageMinutes, "false")
            ELSE
                Verdict(FALSE, "NOT_LIVE", MsgNotLive, ageMinutes, "false")

-----------------------------------------------------------------------------
(* Attendance documents                                                    *)

\* values is an array with holes: a function from the day indices present
NoValues == [i \in {} |-> 0]

WorkedHoursEntry(type, t) == [type |-> type, timestamp |-> t]

\* the DailyAttendance created when the day has none
FreshDay(idx, t) ==
    [day |-> idx + 1, value |-> "null", timestamp |-> t, status |-> "N/A",
     dailyWorkedHours |-> 0, workedHours |-> <<>>]

\* values with index idx set (the array grows as needed)
SetIndex(values, idx, d) ==
    [i \in DOMAIN values \cup {idx} |-> IF i = idx THEN d ELSE values[i]]

\* the fields of an attendance document that the model follows; the documents
\* of the model are those of month 0 (year and month as one number)
\* valuesIsArray: values is stored as an array (else as a map keyed by index);
\* workedHoursMissing: the entry of the clock-in day has no workedHours array
Attendance(lastClockIn, monthly, values, changed) ==
    [month |-> 0, lastClockInTimestamp |-> lastClockIn,
     monthlyWorkedHours |-> monthly, values |-> values, lastChanged |-> changed,
     valuesIsArray |-> TRUE, workedHoursMissing |-> FALSE]

-----------------------------------------------------------------------------
(* Human clock-in / clock-out: util/functions/clockInOrOut.ts              *)

\* shift and attendance-logic settings passed in by the caller:
\* dailyWorkingHour in seconds, the thresholds in percent
ShiftConfigs ==
    {[dailyWorkingHour |-> 20 * SecPerMin, presentThreshold |-> 75,
      halfPresentThreshold |-> 50],
     [dailyWorkingHour |-> 4 * SecPerMin, presentThreshold |-> 50,
      halfPresentThreshold |-> 0]}

\* a classification that needs more than the threshold
AttendanceValueAbove(dailyWorkedHours, cfg) ==
    IF dailyWorkedHours * 100 > cfg.dailyWorkingHour * cfg.presentThreshold
    THEN "P"
    ELSE IF dailyWorkedHours * 100 > cfg.dailyWorkingHour * cfg.halfPresentThreshold
    THEN "H"
    ELSE "A"

\* attendanceValue of a clock-out (dailyWorkingHour is non-zero here)
AttendanceValue(dailyWorkedHours, cfg) ==
    IF dailyWorkedHours * 100 >= cfg.dailyWorkingHour * cfg.presentThreshold
    THEN "P"
    ELSE IF dailyWorkedHours * 100 >= cfg.dailyWorkingHour * cfg.halfPresentThreshold
    THEN "H"
    ELSE "A"

\* a clock-in that puts its entry before the entries of the day
ClockInDataFirst(a, t) ==
    LET idx == DateOf(t) - 1
        day == IF idx \in DOMAIN a.values THEN a.values[idx] ELSE FreshDay(idx, t)
        workedHours == <<WorkedHoursEntry("Clock In", t)>> \o day.workedHours
    IN  [a EXCEPT !.values = SetIndex(a.values, idx,
                                      [day EXCEPT !.workedHours = workedHours]),
                  !.lastClockInTimestamp = t]

\* newData of clockInOrOut("Clock In", a, ...) at time t
ClockInData(a, t) ==
    LET idx == DateOf(t) - 1
        day == IF idx \in DOMAIN a.values THEN a.values[idx] ELSE FreshDay(idx, t)
        workedHours == Append(day.workedHours, WorkedHoursEntry("Clock In", t))
    IN  [a EXCEPT !.values = SetIndex(a.values, idx,
                                      [day EXCEPT !.workedHours = workedHours]),
                  !.lastClockInTimestamp = t]

\* newData of clockInOrOut("Clock Out", a, ...) at time t
ClockOutData(a, t, cfg) ==
    LET idx == DateOf(a.lastClockInTimestamp) - 1
        day == IF idx \in DOMAIN a.values THEN a.values[idx] ELSE FreshDay(idx, t)
        hoursWorked == t - a.lastClockInTimestamp
        workedHours == Append(day.workedHours, WorkedHoursEntry("Clock Out", t))
        dailyWorkedHours == day.dailyWorkedHours + hoursWorked
    IN  [a EXCEPT !.monthlyWorkedHours = @ + hoursWorked,
                  !.values = SetIndex(a.values, idx,
                      [day EXCEPT !.workedHours = workedHours,
                                  !.value = AttendanceValue(dailyWorkedHours, cfg),
                                  !.dailyWorkedHours = dailyWorkedHours,
                                  !.status = "Submitted",
                                  !.timestamp = t]),
                  !.lastClockInTimestamp = Null]

-----------------------------------------------------------------------------
(* Monitor: services/location-monitoring.service.ts                        *)

\* a.includes(b) on the words of a message
Includes(msg, sub) ==
    \E k \in 0..(Len(msg) - Len(sub)) :
        \A i \in 1..Len(sub) : msg[k + i] = sub[i]

triggerErrors ==
    {<<"outside", "your", "designated", "working", "area">>,
     <<"Location", "sharing", "is", "not", "active">>,
     <<"Location", "sharing", "has", "ended">>,
     <<"Location", "data", "is", "too", "old">>}

\* a monitor that acts on every failed validation
IsTriggerAnyError(validation) == validation.error # <<>>

\* line 225: the failure is one that triggers an auto clock-out
IsTrigger(validation) ==
    /\ validation.error # <<>>
    /\ \E err \in triggerErrors : Includes(validation.error, err)

\* lines 232-234: the latest Clock Out entry of the clock-in's day, or Null
LastClockOutTime(a) ==
    LET idx == DateOf(a.lastClockInTimestamp) - 1
        outs == IF idx \in DOMAIN a.values
                THEN {a.values[idx].workedHours[i].timestamp :
                        i \in {j \in 1..Len(a.values[idx].workedHours) :
                                a.values[idx].workedHours[j].type = "Clock Out"}}
                ELSE {}
    IN  IF outs = {} THEN Null ELSE CHOOSE m \in outs : \A o \in outs : o <= m

\* lines 236-242: recently clocked out, skip
RecentlyClockedOut(a, t) ==
    /\ LastClockOutTime(a) # Null
    /\ DiffMinutes(t, LastClockOutTime(a)) < CHECK_INTERVAL_MINUTES

\* a conversion that loses the entries of the map
normalizeAttendanceValuesEmpty(raw) == NoValues

\* lines 366-383: a map with numeric keys becomes an array; keys that are not
\* an index of a day (0..30) are left out
normalizeAttendanceValues(raw) ==
    [i \in {k \in DOMAIN raw : k >= 0 /\ k < 31} |-> raw[i]]

\* an auto-clock-out that leaves the monthly tally as it was
AutoClockOutDataDayOnly(a, t) ==
    LET clockInDayIndex == DateOf(a.lastClockInTimestamp) - 1
        hoursWorked == t - a.lastClockInTimestamp
        baseValues == IF a.valuesIsArray THEN a.values
                      ELSE normalizeAttendanceValues(a.values)
        has == clockInDayIndex \in DOMAIN baseValues
        day == IF has THEN baseValues[clockInDayIndex]
                      ELSE FreshDay(clockInDayIndex, t)
        updatedDay == [day EXCEPT !.workedHours =
                                      Append(@, WorkedHoursEntry("Clock Out", t)),
                                  !.dailyWorkedHours = @ + hoursWorked,
                                  !.value = "A",
                                  !.status = "Submitted",
                                  !.timestamp = t]
    IN  [values |-> SetIndex(baseValues, clockInDayIndex, updatedDay),
         monthlyWorkedHours |-> a.monthlyWorkedHours,
         lastClockInTimestamp |-> Null,
         lastChanged |-> t]

\* updateData of performAutoClockOut(attendance) at time t
AutoClockOutData(a, t) ==
    LET clockInDayIndex == DateOf(a.lastClockInTimestamp) - 1
        hoursWorked == t - a.lastClockInTimestamp
        baseValues == IF a.valuesIsArray THEN a.values
                      ELSE normalizeAttendanceValues(a.values)
        has == clockInDayIndex \in DOMAIN baseValues
        workedHours ==
            Append(IF has THEN baseValues[clockInDayIndex].workedHours ELSE <<>>,
                   WorkedHoursEntry("Clock Out", t))
        dailyWorkedHours ==
            (IF has THEN baseValues[clockInDayIndex].dailyWorkedHours ELSE 0)
                + hoursWorked
        day == IF has THEN baseValues[clockInDayIndex]
                      ELSE FreshDay(clockInDayIndex, t)
        updatedDay == [day EXCEPT !.workedHours = workedHours,
                                  !.dailyWorkedHours = dailyWorkedHours,
                                  !.value = "A",
                                  !.status = "Submitted",
                                  !.timestamp = t]
    IN  [values |-> SetIndex(baseValues, clockInDayIndex, updatedDay),
         monthlyWorkedHours |-> a.monthlyWorkedHours + hoursWorked,
         lastClockInTimestamp |-> Null,
         lastChanged |-> t]

\* line 232: `.workedHours.filter` on a day entry without workedHours throws
DedupThrows(a) ==
    /\ a.workedHoursMissing
    /\ DateOf(a.lastClockInTimestamp) - 1 \in DOMAIN a.values

\* line 184: no working area defined
NoWorkingArea(employee) == employee.workingArea \in {"", " "}

\* a check that validates also without a working area
DecisionWithoutAreaTest(employee, attendance, t) ==
    LET validation == validateEmployeeLocationAndArea(
                          employee.currentLocation, employee.workingArea,
                          MAX_LOCATION_AGE_MINUTES, t)
    IN  IF validation.isValid THEN "valid"
        ELSE IF ~IsTrigger(validation) THEN "not_trigger"
        ELSE IF DedupThrows(attendance) THEN "error"
        ELSE IF RecentlyClockedOut(attendance, t) THEN "recent"
        ELSE "clock_out"

\* what checkAndAutoClockOut decides for a scanned employee at time t, before
\* any write: "no_area", "valid", "not_trigger", "error" (it throws), "recent"
\* or "clock_out"
Decision(employee, attendance, t) ==
    LET validation == validateEmployeeLocationAndArea(
                          employee.currentLocation, employee.workingArea,
                          MAX_LOCATION_AGE_MINUTES, t)
    IN  IF NoWorkingArea(employee) THEN "no_area"
        ELSE IF validation.isValid THEN "valid"
        ELSE IF ~IsTrigger(validation) THEN "not_trigger"
        ELSE IF DedupThrows(attendance) THEN "error"
        ELSE IF RecentlyClockedOut(attendance, t) THEN "recent"
        ELSE "clock_out"

-----------------------------------------------------------------------------
(* State shared by the actions                                             *)

liveVars == <<locationLogs, liveSessions, handlers, delivered, sweepAt, sweep>>
timerVars == <<isRunning, intervalId, warmups>>

\* waiting: the runs of runLocationCheck that began while another one was in
\* flight and are suspended at their first await
IdleTick == [pc |-> "idle", queue |-> <<>>, results |-> <<>>, waiting |-> 0]

\* a timer callback calls runLocationCheck(): the timers do not look at a run
\* in flight
Begun(t) ==
    IF t.pc = "idle" THEN [IdleTick EXCEPT !.pc = "scan"]
    ELSE [t EXCEPT !.waiting = @ + 1]

\* a run of runLocationCheck returns; a suspended one goes on
Completed(t) ==
    IF t.waiting > 0 THEN [IdleTick EXCEPT !.pc = "scan", !.waiting = t.waiting - 1]
    ELSE IdleTick
IdleSweep == [pc |-> "idle", visited |-> {}, key |-> <<>>]

\* a stored currentLocation
\* (ev labels the location event whose data the document holds; 0: an
\* event from before the service came up)
Location(lat, lng, live, updated, until, ended, chat, msg) ==
    [present |-> TRUE, ev |-> 0, latitude |-> lat, longitude |-> lng,
     source |-> IF live THEN "telegram_live" ELSE "telegram", isLive |-> live,
     updatedAt |-> updated, liveMessageId |-> msg, liveChatId |-> chat,
     liveUntil |-> until, endedAt |-> ended]

Employee(area, loc) ==
    [workingArea |-> area, currentLocation |-> loc, telegramChatID |-> "c1",
     reportingLineManager |-> ""]

NoHistory ==
    [check |-> [e |-> "none"],
     write |-> [e |-> "none"],
     auto |-> [e \in Employees |-> [n |-> 0, last |-> Null, prev |-> Null]],
     sweep |-> [key |-> <<>>],
     verdict |-> [e |-> "none"],
     scan |-> [t |-> Null],
     save |-> [key |-> <<>>],
     notified |-> [e |-> "none"],
     geo |-> [op |-> "none"],
     human |-> [e |-> "none"],
     dropped |-> {},
     location |-> [e |-> "none"],
     failed |-> {},
     intervals |-> 0,
     again |-> FALSE,
     ended |-> {},
     seen |-> {},
     done |-> {}]

\* timers that are armed, by the time they fire
Deadlines ==
    {warmups[i] : i \in 1..Len(warmups)}
        \cup (IF intervalId # Null THEN {intervalId} ELSE {})
        \cup (IF sweepAt # Null THEN {sweepAt} ELSE {})

\* nothing is suspended on I/O
Quiet == tick.pc = "idle" /\ handlers = {} /\ sweep.pc = "idle"

\* The clock moves on, by at most Granule and never past an armed timer. The
\* asynchronous work in flight completes before it does.
Advance(limit) ==
    /\ Quiet
    /\ now < limit
    /\ \A d \in Deadlines : d > now
    /\ now' = IF Deadlines = {} THEN now + Granule
              ELSE Min(now + Granule,
                       CHOOSE m \in Deadlines : \A d \in Deadlines : m <= d)
    \* the history of the last operations is that of the current instant
    /\ hist' = [hist EXCEPT !.check = NoHistory.check, !.write = NoHistory.write,
                            !.sweep = NoHistory.sweep, !.scan = NoHistory.scan,
                            !.save = NoHistory.save, !.notified = NoHistory.notified,
                            !.human = NoHistory.human]
    /\ UNCHANGED <<emp, att, liveVars, timerVars, tick, sent, budget>>

-----------------------------------------------------------------------------
(* Monitor lifecycle and tick                                              *)

\* a start that does not look at isRunning
startMonitoringUnguarded ==
    /\ budget.startStop > 0
    /\ budget' = [budget EXCEPT !.startStop = @ - 1]
    /\ isRunning' = TRUE
    /\ warmups' = Append(warmups, now + WarmUpDelay)
    /\ intervalId' = now + CHECK_INTERVAL_MINUTES * SecPerMin
    /\ hist' = [hist EXCEPT !.intervals = @ + 1, !.again = @ \/ isRunning]
    /\ UNCHANGED <<now, emp, att, liveVars, tick, sent>>

\* lines 42-65 (hist.intervals counts the interval timers that are set and
\* not cleared; hist.again: a start was called while running)
startMonitoring ==
    /\ budget.startStop > 0
    /\ budget' = [budget EXCEPT !.startStop = @ - 1]
    /\ IF isRunning
       THEN /\ hist' = [hist EXCEPT !.again = TRUE]
            /\ UNCHANGED timerVars
       ELSE /\ isRunning' = TRUE
            /\ warmups' = Append(warmups, now + WarmUpDelay)
            /\ intervalId' = now + CHECK_INTERVAL_MINUTES * SecPerMin
            /\ hist' = [hist EXCEPT !.intervals = @ + 1]
    /\ UNCHANGED <<now, emp, att, liveVars, tick, sent>>

\* lines 67-74
stopMonitoring ==
    /\ budget.startStop > 0
    /\ budget' = [budget EXCEPT !.startStop = @ - 1]
    /\ intervalId' = Null
    /\ isRunning' = FALSE
    /\ hist' = IF intervalId # Null THEN [hist EXCEPT !.intervals = @ - 1] ELSE hist
    /\ UNCHANGED <<now, emp, att, liveVars, warmups, tick, sent>>

\* the warm-up setTimeout fires: runLocationCheck()
WarmUpFire ==
    /\ \E i \in 1..Len(warmups) :
        /\ warmups[i] <= now
        /\ warmups' = [j \in 1..(Len(warmups) - 1) |->
                          IF j < i THEN warmups[j] ELSE warmups[j + 1]]
    /\ tick' = Begun(tick)
    /\ UNCHANGED <<now, emp, att, liveVars, isRunning, intervalId, sent, budget, hist>>

\* the setInterval fires: runLocationCheck()
IntervalFire ==
    /\ intervalId # Null
    /\ intervalId <= now
    /\ intervalId' = intervalId + CHECK_INTERVAL_MINUTES * SecPerMin
    /\ tick' = Begun(tick)
    /\ UNCHANGED <<now, emp, att, liveVars, isRunning, warmups, sent, budget, hist>>

\* findClockedInEmployees over the healthy databases: a snapshot of every
\* clocked-in attendance document joined with its employee
ScanList(S) ==
    LET RECURSIVE list(_)
        list(T) == IF T = {} THEN <<>>
                   ELSE LET e == CHOOSE x \in T : TRUE
                        IN  <<[e |-> e, employee |-> emp[e], attendance |-> att[e]]>>
                                \o list(T \ {e})
    IN  list(S)

\* lines 130-141: the documents of the current year and month, filtered for
\* a clock-in that is set
ClockedInDocs(t) ==
    {e \in DOMAIN att : /\ att[e].month = MonthOf(t)
                       /\ att[e].lastClockInTimestamp # Null}

Scan ==
    /\ tick.pc = "scan"
    /\ \E healthy \in BOOLEAN :
        LET found == IF healthy THEN ScanList(ClockedInDocs(now)) ELSE <<>>
        IN  /\ tick' = IF found = <<>> THEN Completed(tick)
                       ELSE [tick EXCEPT !.pc = "check", !.queue = found]
            /\ hist' = IF healthy
                       THEN [hist EXCEPT !.scan =
                               [t |-> now,
                                open |-> {e \in DOMAIN att :
                                            att[e].lastClockInTimestamp # Null},
                                found |-> {found[i].e : i \in 1..Len(found)}]]
                       ELSE hist
    /\ UNCHANGED <<now, emp, att, liveVars, timerVars, sent, budget>>

\* the attendance document after doc.update(updateData)
Updated(a, updateData) ==
    [a EXCEPT !.valuesIsArray = TRUE,
              !.lastClockInTimestamp = updateData.lastClockInTimestamp,
              !.monthlyWorkedHours = updateData.monthlyWorkedHours,
              !.values = updateData.values,
              !.lastChanged = updateData.lastChanged]

\* an update that reaches the store although it is reported as failed
StoredAnyway(a, updateData, ok) == Updated(a, updateData)

\* lines 355-363: the stored document after the update, which fails as a whole
Stored(a, updateData, ok) == IF ok THEN Updated(a, updateData) ELSE a

\* a loop that gives up the tick when the check of an employee fails
TickAfterAbort(rest, results, failed) ==
    IF failed \/ (rest = <<>> /\ results = <<>>) THEN Completed(tick)
    ELSE [pc |-> IF rest = <<>> THEN "notify" ELSE "check",
          queue |-> rest, results |-> results, waiting |-> tick.waiting]

\* lines 98-112: the loop goes on to the next scanned employee, whatever the
\* check of this one did (failed: it threw or its write failed), then to the
\* notifications
TickAfter(rest, results, failed) ==
    IF rest = <<>> /\ results = <<>> THEN Completed(tick)
    ELSE [pc |-> IF rest = <<>> THEN "notify" ELSE "check",
          queue |-> rest, results |-> results, waiting |-> tick.waiting]

\* lines 271-275: the chat id findManagerChatID can return for the employee
ManagerChats(employee) ==
    IF employee.reportingLineManager = "" THEN {""} ELSE {"", "c9"}

\* checkAndAutoClockOut for the next scanned employee, with the attendance
\* update applied (or failing after its retries)
CheckNext ==
    /\ tick.pc = "check"
    /\ LET head == tick.queue[1]
           e == head.e
           validation == validateEmployeeLocationAndArea(
                             head.employee.currentLocation, head.employee.workingArea,
                             MAX_LOCATION_AGE_MINUTES, now)
           decision == Decision(head.employee, head.attendance, now)
           rest == Tail(tick.queue)
           checked(outcome) ==
               [e |-> e, kind |-> validation.kind, outcome |-> outcome,
                age |-> validation.locationAge, area |-> head.employee.workingArea,
                earlier |-> IF hist.check.e = "none" THEN {}
                            ELSE hist.check.earlier \cup {hist.check.outcome}]
       IN  IF decision # "clock_out"
           THEN /\ tick' = TickAfter(rest, tick.results, decision = "error")
                /\ hist' = [hist EXCEPT !.check = checked(decision)]
                /\ UNCHANGED att
           ELSE \E ok \in BOOLEAN, managerChatID \in ManagerChats(head.employee) :
                LET updateData == AutoClockOutData(head.attendance, now)
                    result == [success |-> ok, e |-> e,
                               employeeChatID |-> head.employee.telegramChatID,
                               managerChatID |-> IF ok THEN managerChatID ELSE "",
                               reason |-> validation.kind]
                IN  /\ ok \/ managerChatID = ""
                    /\ tick' = TickAfter(rest, Append(tick.results, result), ~ok)
                    /\ att' = [att EXCEPT ![e] = Stored(@, updateData, ok)]
                    /\ hist' = IF ok
                               THEN [hist EXCEPT
                                       !.check = checked("written"),
                                       !.write = [e |-> e, t |-> now,
                                                  given |-> head.attendance,
                                                  before |-> att[e],
                                                  after |-> att'[e]],
                                       !.auto[e] = [n |-> Min(@.n + 1, 2),
                                                    last |-> now, prev |-> @.last]]
                               ELSE [hist EXCEPT !.check = checked("write_failed"),
                                                 !.failed = @ \cup {e}]
    /\ UNCHANGED <<now, emp, liveVars, timerVars, sent, budget>>

\* messages for failed clock-outs as well
MessagesAlways(result, employeeSent, t) ==
    LET message(to) == [to |-> to, about |-> result.e, reason |-> result.reason,
                        t |-> t]
        toEmployee == result.employeeChatID # ""
    IN  IF toEmployee /\ ~employeeSent THEN <<>>
        ELSE (IF toEmployee THEN <<message(result.employeeChatID)>> ELSE <<>>)
                \o (IF result.managerChatID # ""
                    THEN <<message(result.managerChatID)>> ELSE <<>>)

\* lines 415-439: the messages sendNotifications sends for a result; when
\* sendMessage to the employee throws (employeeSent = FALSE) the catch block
\* ends the function
Messages(result, employeeSent, t) ==
    LET message(to) == [to |-> to, about |-> result.e, reason |-> result.reason,
                        t |-> t]
        toEmployee == result.success /\ result.employeeChatID # ""
    IN  IF toEmployee /\ ~employeeSent THEN <<>>
        ELSE (IF toEmployee THEN <<message(result.employeeChatID)>> ELSE <<>>)
                \o (IF result.managerChatID # ""
                    THEN <<message(result.managerChatID)>> ELSE <<>>)

\* sendNotifications for the next collected result
Notify ==
    /\ tick.pc = "notify"
    /\ \E employeeSent \in BOOLEAN :
        LET result == tick.results[1]
            rest == Tail(tick.results)
            messages == Messages(result, employeeSent, now)
        IN  /\ employeeSent \/ (result.success /\ result.employeeChatID # "")
            /\ sent' = sent \o messages
            /\ hist' = [hist EXCEPT !.notified = [e |-> result.e, result |-> result,
                                                  messages |-> messages]]
            /\ tick' = IF rest = <<>> THEN Completed(tick)
                       ELSE [tick EXCEPT !.results = rest]
    /\ UNCHANGED <<now, emp, att, liveVars, timerVars, budget>>

\* A human clocks in at the web app. The caller offers Clock In only to an
\* employee who is not clocked in.
\* (the caller passes the employee's attendance document of the current month)
HumanClockIn ==
    /\ budget.human > 0
    /\ \E e \in Employees :
        /\ att[e].month = MonthOf(now)
        /\ att[e].lastClockInTimestamp = Null
        /\ att' = [att EXCEPT ![e] = [ClockInData(@, now) EXCEPT !.lastChanged = now]]
    /\ budget' = [budget EXCEPT !.human = @ - 1]
    /\ UNCHANGED <<now, emp, liveVars, timerVars, tick, sent, hist>>

HumanClockOut ==
    /\ budget.human > 0
    /\ \E e \in Employees, cfg \in ShiftConfigs :
        /\ att[e].month = MonthOf(now)
        /\ att[e].lastClockInTimestamp # Null
        /\ att' = [att EXCEPT ![e] =
                      [ClockOutData(@, now, cfg) EXCEPT !.lastChanged = now]]
        /\ hist' = [hist EXCEPT !.human = [e |-> e, type |-> "Clock Out", t |-> now,
                                           cfg |-> cfg,
                                           before |-> att[e], after |-> att'[e]]]
    /\ budget' = [budget EXCEPT !.human = @ - 1]
    /\ UNCHANGED <<now, emp, liveVars, timerVars, tick, sent>>

-----------------------------------------------------------------------------
(* The monitor with the human clock path, on stored employee documents     *)

\* the employee clocked in ten minutes before the service came up
ClockedInBefore ==
    [ClockInData(Attendance(Null, 0, NoValues, Null), StartTime - 10 * SecPerMin)
        EXCEPT !.lastChanged = StartTime - 10 * SecPerMin]

\* currentLocation documents left in the store by earlier location events
StoredLocations ==
    {NoLocation,
     \* a static share, a minute and a quarter of an hour old
     Location(5, 5, FALSE, StartTime - SecPerMin, Null, Null, "c1", "m1"),
     Location(5, 5, FALSE, StartTime - 15 * SecPerMin, Null, Null, "c1", "m1"),
     \* live shares, inside and outside the square
     Location(5, 5, TRUE, StartTime, StartTime + 2 * SecPerMin, Null, "c1", "m1"),
     Location(5, 5, TRUE, StartTime, Null, Null, "c1", "m1"),
     Location(5, 15, TRUE, StartTime, Null, Null, "c1", "m1"),
     \* a finalized live share
     Location(5, 5, FALSE, StartTime - 5 * SecPerMin, Null, StartTime - SecPerMin,
              "c1", "m1")}

InitMonitor ==
    /\ now = StartTime
    /\ emp \in [Employees -> {Employee(w, l) : w \in {"", "single", "garbage"},
                                                l \in StoredLocations}]
    /\ att = [e \in Employees |-> ClockedInBefore]
    /\ locationLogs = [e \in Employees |-> <<>>]
    /\ liveSessions = [k \in {} |-> 0]
    /\ handlers = {}
    /\ delivered = 0
    /\ sweepAt = Null
    /\ sweep = IdleSweep
    /\ isRunning = FALSE
    /\ intervalId = Null
    /\ warmups = <<>>
    /\ tick = IdleTick
    /\ sent = <<>>
    /\ budget = [startStop |-> MaxStartStop, human |-> MaxHumanOps, events |-> 0]
    /\ hist = NoHistory

AdvanceMonitor == Advance(StartTime + MonitorSteps * Granule)

NextMonitor ==
    \/ AdvanceMonitor
    \/ startMonitoring
    \/ stopMonitoring
    \/ WarmUpFire
    \/ IntervalFire
    \/ Scan
    \/ CheckNext
    \/ Notify
    \/ HumanClockIn
    \/ HumanClockOut

SpecMonitor == InitMonitor /\ [][NextMonitor]_vars

-----------------------------------------------------------------------------
(* Live-location tracker: the bot's saveEmployeeLocation and sweeper       *)

\* chatSessions / findEmployeeByChatId: the employee linked to a chat
\* a lookup that finds an employee for every chat
EmployeeOfChatAny(chat) == "e1"

\* ensureEmployeeByChat (563-573): the employee whose telegramChatID is the
\* chat (by the session map or by the query on the healthy databases), "none"
\* when there is none
EmployeeOfChat(chat) ==
    IF chat # "" /\ \E e \in DOMAIN emp : emp[e].telegramChatID = chat
    THEN CHOOSE e \in DOMAIN emp : emp[e].telegramChatID = chat
    ELSE "none"

\* the chats that send location events: the employee's and an unknown one
Chats == {"c1", "c0"}

makeLiveKey(chatId, messageId) == <<chatId, messageId>>

SetEntry(reg, key, entry) ==
    [k \in DOMAIN reg \cup {key} |-> IF k = key THEN entry ELSE reg[k]]
DeleteEntry(reg, key) == [k \in DOMAIN reg \ {key} |-> reg[k]]

\* live_period of an event: absent (Null) or seconds
LivePeriods == {Null, 0, 60, 180}
\* coordinates <<latitude, longitude>> sent: inside and outside the square
Points == {<<5, 5>>, <<5, 15>>}

\* bot.on('message') / bot.on('edited_message'): handleLocationMessage starts
\* and suspends on ensureEmployeeByChat. A plain message carries a message id
\* of its own; edits carry the id of the message they update.
DeliverFrom(chats) ==
    /\ budget.events > 0
    /\ budget' = [budget EXCEPT !.events = @ - 1]
    /\ delivered' = delivered + 1
    /\ \E chat \in chats, msg \in MessageIds, isEdit \in BOOLEAN,
          p \in LivePeriods, pt \in Points :
        /\ isEdit \/ \A k \in hist.seen : k # makeLiveKey(chat, msg)
        /\ handlers' = handlers \cup
               {[id |-> delivered + 1, chatId |-> chat, messageId |-> msg,
                 latitude |-> pt[1], longitude |-> pt[2],
                 livePeriodSeconds |-> p, isEdit |-> isEdit,
                 pc |-> "context", data |-> NoLocation]}
        /\ hist' = [hist EXCEPT !.seen = @ \cup {makeLiveKey(chat, msg)}]
    /\ UNCHANGED <<now, emp, att, locationLogs, liveSessions, sweepAt, sweep,
                   timerVars, tick, sent>>

\* an event of the employee's chat
Deliver == DeliverFrom({"c1"})

\* an event of any chat
DeliverAny == DeliverFrom(Chats)

\* an upsert that keeps the duration of an entry it finds
UpsertKeepDuration(reg, key, h, e, t) ==
    IF key \in DOMAIN reg
    THEN SetEntry(reg, key, [reg[key] EXCEPT !.lastUpdateMs = t, !.ev = h.id])
    ELSE IF h.livePeriodSeconds # Null /\ h.livePeriodSeconds > 0
    THEN SetEntry(reg, key, [employeeId |-> e, liveUntilMs |-> t + h.livePeriodSeconds,
                             lastUpdateMs |-> t, ev |-> h.id])
    ELSE IF h.isEdit
    THEN SetEntry(reg, key, [employeeId |-> e, liveUntilMs |-> Null,
                             lastUpdateMs |-> t, ev |-> h.id])
    ELSE reg

\* an upsert that forgets the duration of an entry updated without one
UpsertDropDuration(reg, key, h, e, t) ==
    IF h.livePeriodSeconds # Null /\ h.livePeriodSeconds > 0
    THEN SetEntry(reg, key, [employeeId |-> e, liveUntilMs |-> t + h.livePeriodSeconds,
                             lastUpdateMs |-> t, ev |-> h.id])
    ELSE IF key \in DOMAIN reg \/ h.isEdit
    THEN SetEntry(reg, key, [employeeId |-> e, liveUntilMs |-> Null,
                             lastUpdateMs |-> t, ev |-> h.id])
    ELSE reg

\* an upsert that tracks a static share as a live one
UpsertStaticShare(reg, key, h, e, t) ==
    IF h.livePeriodSeconds # Null /\ h.livePeriodSeconds > 0
    THEN SetEntry(reg, key, [employeeId |-> e, liveUntilMs |-> t + h.livePeriodSeconds,
                             lastUpdateMs |-> t, ev |-> h.id])
    ELSE IF key \in DOMAIN reg
    THEN SetEntry(reg, key, [reg[key] EXCEPT !.lastUpdateMs = t, !.ev = h.id])
    ELSE SetEntry(reg, key, [employeeId |-> e, liveUntilMs |-> Null,
                             lastUpdateMs |-> t, ev |-> h.id])

\* lines 587-621: the registry after the upsert for an event
Upsert(reg, key, h, e, t) ==
    IF h.livePeriodSeconds # Null /\ h.livePeriodSeconds > 0
    THEN SetEntry(reg, key, [employeeId |-> e, liveUntilMs |-> t + h.livePeriodSeconds,
                             lastUpdateMs |-> t, ev |-> h.id])
    ELSE IF key \in DOMAIN reg
    THEN SetEntry(reg, key, [reg[key] EXCEPT !.lastUpdateMs = t, !.ev = h.id])
    ELSE IF h.isEdit
    THEN SetEntry(reg, key, [employeeId |-> e, liveUntilMs |-> Null,
                             lastUpdateMs |-> t, ev |-> h.id])
    ELSE reg

\* lines 623-643: currentLocationData, given the registry after the upsert
CurrentLocationData(reg, key, h, t) ==
    LET isLive == key \in DOMAIN reg
        liveUntilMs == IF isLive THEN reg[key].liveUntilMs ELSE Null
    IN  [Location(h.latitude, h.longitude, isLive, t, liveUntilMs, Null,
                  h.chatId, h.messageId) EXCEPT !.ev = h.id]

\* saveEmployeeLocation up to its document update: the context and the healthy
\* databases have resolved, the registry is upserted, the update is issued.
\* With the project's database unhealthy it throws before touching anything.
Save ==
    \E h \in handlers :
        /\ h.pc = "context"
        /\ \E healthy \in BOOLEAN :
            LET e == EmployeeOfChat(h.chatId)
                key == makeLiveKey(h.chatId, h.messageId)
                reg == Upsert(liveSessions, key, h, e, now)
            IN  IF e = "none"
                \* lines 684-688: no context, the event is ignored
                THEN /\ healthy
                     /\ handlers' = handlers \ {h}
                     /\ hist' = [hist EXCEPT !.dropped = @ \cup {h.id}]
                     /\ UNCHANGED liveSessions
                ELSE IF healthy
                THEN /\ liveSessions' = reg
                     /\ handlers' = (handlers \ {h}) \cup
                            {[h EXCEPT !.pc = "update",
                                       !.data = CurrentLocationData(reg, key, h, now)]}
                     /\ hist' = [hist EXCEPT !.save =
                                    [key |-> key, h |-> h, t |-> now,
                                     before |-> liveSessions, after |-> reg,
                                     data |-> CurrentLocationData(reg, key, h, now)]]
                ELSE /\ handlers' = handlers \ {h}
                     /\ UNCHANGED <<liveSessions, hist>>
        /\ UNCHANGED <<now, emp, att, locationLogs, delivered, sweepAt, sweep,
                       timerVars, tick, sent, budget>>

\* the employee document update of saveEmployeeLocation is applied (or fails
\* after its retries, and the handler ends), then the locationLogs append
ApplyUpdate ==
    \E h \in handlers :
        /\ h.pc = "update"
        /\ handlers' = handlers \ {h}
        /\ \E ok \in BOOLEAN, logged \in BOOLEAN :
            LET e == EmployeeOfChat(h.chatId)
            IN  IF ok
                THEN /\ emp' = [emp EXCEPT ![e].currentLocation = h.data]
                     /\ locationLogs' = IF logged
                                        THEN [locationLogs EXCEPT ![e] = Append(@, h.id)]
                                        ELSE locationLogs
                     /\ hist' = [hist EXCEPT !.done = @ \cup {h.id}]
                ELSE /\ logged = FALSE
                     /\ UNCHANGED <<emp, locationLogs, hist>>
        /\ UNCHANGED <<now, att, liveSessions, delivered, sweepAt, sweep,
                       timerVars, tick, sent, budget>>

\* a sweeper that waits for the later of the two ends
ThresholdLatest(entry) ==
    LET staleEnd == entry.lastUpdateMs + LIVE_GRACE
    IN  IF entry.liveUntilMs = Null THEN staleEnd
        ELSE Max(entry.liveUntilMs, staleEnd)

\* lines 53-55: when the sweeper takes an entry for ended
Threshold(entry) ==
    LET staleEnd == entry.lastUpdateMs + LIVE_GRACE
    IN  IF entry.liveUntilMs = Null THEN staleEnd
        ELSE Min(entry.liveUntilMs, staleEnd)

\* a finalization that stamps endedAt and leaves isLive as it was
FinalizedEndedOnly(loc, ts) ==
    IF loc.present
    THEN [loc EXCEPT !.endedAt = ts]
    ELSE [Location(Null, Null, TRUE, Null, Null, ts, "", "") EXCEPT !.source = ""]

\* lines 63-67: the update of a finalization on a stored currentLocation
Finalized(loc, ts) ==
    IF loc.present
    THEN [loc EXCEPT !.isLive = FALSE, !.endedAt = ts]
    ELSE [Location(Null, Null, FALSE, Null, Null, ts, "", "") EXCEPT !.source = ""]

\* the sweeper's setInterval fires
SweepFire ==
    /\ sweepAt # Null
    /\ sweepAt <= now
    /\ sweep.pc = "idle"
    /\ sweepAt' = sweepAt + SweepPeriod
    /\ sweep' = IF DOMAIN liveSessions = {} THEN IdleSweep
                ELSE [pc |-> "iterate", visited |-> {}, key |-> <<>>]
    /\ UNCHANGED <<now, emp, att, locationLogs, liveSessions, handlers, delivered,
                   timerVars, tick, sent, budget, hist>>

\* the loop reaches the next entry of the map and tests its threshold
SweepStep ==
    /\ sweep.pc = "iterate"
    /\ LET left == DOMAIN liveSessions \ sweep.visited
       IN  IF left = {} THEN sweep' = IdleSweep
           ELSE \E key \in left :
                   sweep' = IF now >= Threshold(liveSessions[key])
                            THEN [pc |-> "finalize", visited |-> sweep.visited \cup {key},
                                  key |-> key]
                            ELSE [sweep EXCEPT !.visited = @ \cup {key}]
    /\ UNCHANGED <<now, emp, att, locationLogs, liveSessions, handlers, delivered,
                   sweepAt, timerVars, tick, sent, budget, hist>>

\* the registry after the try / catch / finally of a finalization
AfterFinalize(reg, key, ok) == DeleteEntry(reg, key)

\* lines 57-74: the finalization's document update is applied, or the
\* database is not healthy or the update throws; then the finally block
SweepFinalize ==
    /\ sweep.pc = "finalize"
    /\ \E ok \in BOOLEAN :
        LET key == sweep.key
            e == liveSessions[key].employeeId
        IN  /\ emp' = IF ok
                      THEN [emp EXCEPT ![e].currentLocation = Finalized(@, now)]
                      ELSE emp
            /\ liveSessions' = AfterFinalize(liveSessions, key, ok)
            /\ hist' = [hist EXCEPT
                          !.sweep = [key |-> key, ok |-> ok, t |-> now,
                                     entry |-> liveSessions[key],
                                     removed |-> key \notin DOMAIN liveSessions',
                                     was |-> emp[e].currentLocation,
                                     doc |-> emp'[e].currentLocation],
                          !.ended = IF ok THEN @ \cup {[key |-> key, after |-> delivered]}
                                    ELSE @]
    /\ sweep' = [sweep EXCEPT !.pc = "iterate", !.key = <<>>]
    /\ UNCHANGED <<now, att, locationLogs, handlers, delivered, sweepAt,
                   timerVars, tick, sent, budget>>

-----------------------------------------------------------------------------
(* The tracker alone                                                       *)

InitLive ==
    /\ now = StartTime
    /\ emp = [e \in Employees |-> Employee("single", NoLocation)]
    /\ att = [e \in Employees |-> ClockedInBefore]
    /\ locationLogs = [e \in Employees |-> <<>>]
    /\ liveSessions = [k \in {} |-> 0]
    /\ handlers = {}
    /\ delivered = 0
    /\ sweepAt = StartTime + SweepPeriod
    /\ sweep = IdleSweep
    /\ isRunning = FALSE
    /\ intervalId = Null
    /\ warmups = <<>>
    /\ tick = IdleTick
    /\ sent = <<>>
    /\ budget = [startStop |-> 0, human |-> 0, events |-> MaxEvents]
    /\ hist = NoHistory

AdvanceLive == Advance(StartTime + LiveSteps * Granule)

NextLive ==
    \/ AdvanceLive
    \/ Deliver
    \/ Save
    \/ ApplyUpdate
    \/ SweepFire
    \/ SweepStep
    \/ SweepFinalize

SpecLive == InitLive /\ [][NextLive]_vars

-----------------------------------------------------------------------------
(* Tracker and monitor together: the monitor reads what the tracker wrote  *)

InitStale ==
    /\ now = StartTime
    /\ emp = [e \in Employees |-> Employee("single", NoLocation)]
    /\ att = [e \in Employees |-> ClockedInBefore]
    /\ locationLogs = [e \in Employees |-> <<>>]
    /\ liveSessions = [k \in {} |-> 0]
    /\ handlers = {}
    /\ delivered = 0
    /\ sweepAt = StartTime + SweepPeriod
    /\ sweep = IdleSweep
    /\ isRunning = FALSE
    /\ intervalId = Null
    /\ warmups = <<>>
    /\ tick = IdleTick
    /\ sent = <<>>
    /\ budget = [startStop |-> 1, human |-> 0, events |-> StaleEvents]
    /\ hist = NoHistory

AdvanceStale == Advance(StartTime + StaleSteps * Granule)

NextStale ==
    \/ AdvanceStale
    \/ Deliver
    \/ Save
    \/ ApplyUpdate
    \/ SweepFire
    \/ SweepStep
    \/ SweepFinalize
    \/ startMonitoring
    \/ WarmUpFire
    \/ IntervalFire
    \/ Scan
    \/ CheckNext
    \/ Notify

SpecStale == InitStale /\ [][NextStale]_vars

-----------------------------------------------------------------------------
(* Properties                                                              *)

\* C1: any two auto-clock-out writes of the monitor on one attendance
\* document are at least CHECK_INTERVAL_MINUTES apart, whatever ticks and
\* human clock-ins come between them.
AutoClockOutsFiveMinutesApart ==
    \A e \in Employees :
        hist.auto[e].prev # Null =>
            hist.auto[e].last - hist.auto[e].prev >= CHECK_INTERVAL_MINUTES * SecPerMin

\* C2: right after a successful auto-clock-out of a document clocked in at
\* t_in, the stored document is clocked out, the last workedHours entry of day
\* index date(t_in) - 1 is a Clock Out with value "A" and status "Submitted",
\* and monthlyWorkedHours is its previous stored value plus now - t_in.
AutoClockOutPostState ==
    hist.write.e # "none" =>
        LET w == hist.write
            tin == w.given.lastClockInTimestamp
            idx == DateOf(tin) - 1
            values == w.after.values
        IN  /\ w.after.lastClockInTimestamp = Null
            /\ idx \in DOMAIN values
            /\ Len(values[idx].workedHours) > 0
            /\ values[idx].workedHours[Len(values[idx].workedHours)].type = "Clock Out"
            /\ values[idx].value = "A"
            /\ values[idx].status = "Submitted"
            /\ w.after.monthlyWorkedHours = w.before.monthlyWorkedHours + (w.t - tin)

\* C3: a tick invokes the attendance mutator for an employee only on a verdict
\* of OUTSIDE_AREA, NOT_LIVE, SHARING_ENDED or STALE_LOCATION; NO_LOCATION,
\* BAD_WORKING_AREA and a valid verdict never lead to an attendance write.
OnlyActionableKindsWrite ==
    hist.check.e # "none" /\ hist.check.outcome \in {"written", "write_failed"} =>
        hist.check.kind \in {"OUTSIDE_AREA", "NOT_LIVE", "SHARING_ENDED", "STALE_LOCATION"}

\* a tick has written an auto clock-out on a NOT_LIVE verdict
NotLiveWritten ==
    /\ hist.check.e # "none"
    /\ hist.check.outcome = "written"
    /\ hist.check.kind = "NOT_LIVE"

\* C4: a tick that checks a clocked-in employee with a parseable working area
\* whose stored location is older than MAX_LOCATION_AGE_MINUTES goes on to the
\* automatic clock-out (written, attempted, or held back by the dedup only),
\* whatever isLive and liveUntil are.
StaleLocationClockedOut ==
    hist.check.e # "none" /\ hist.check.age # Null
        /\ hist.check.age > MAX_LOCATION_AGE_MINUTES
        /\ parseWorkingArea(hist.check.area) # NoArea =>
            hist.check.outcome \in {"written", "write_failed", "recent"}

RemovedOnlyAfterFinalized ==
    [][\A k \in DOMAIN liveSessions :
          k \notin DOMAIN liveSessions' =>
              /\ emp'[EmployeeOfChat(k[1])].currentLocation.present
              /\ emp'[EmployeeOfChat(k[1])].currentLocation.isLive = FALSE
              /\ emp'[EmployeeOfChat(k[1])].currentLocation.endedAt = now]_vars

\* C7: once the sweeper has finalized the session of a key, no event delivered
\* later with that key re-creates its registry entry, sets isLive back to true
\* or clears endedAt.
NoRevival ==
    \A r \in hist.ended :
        /\ r.key \in DOMAIN liveSessions => liveSessions[r.key].ev <= r.after
        /\ \A e \in Employees :
              LET loc == emp[e].currentLocation
              IN  loc.present /\ loc.ev > r.after
                    /\ makeLiveKey(loc.liveChatId, loc.liveMessageId) = r.key
                  => loc.isLive = FALSE /\ loc.endedAt # Null

\* C8: in every state a stored currentLocation with isLive = true has
\* endedAt = null, and one with endedAt set has isLive = false.
LiveHasNoEnd ==
    \A e \in Employees :
        LET loc == emp[e].currentLocation
        IN  loc.present =>
              /\ loc.isLive => loc.endedAt = Null
              /\ loc.endedAt # Null => loc.isLive = FALSE

\* an ingestion write has landed on a document the sweeper had finalized
LiveAgainAfterFinalization ==
    /\ hist.ended # {}
    /\ \E e \in Employees :
          /\ emp[e].currentLocation.present
          /\ emp[e].currentLocation.isLive
          /\ \E r \in hist.ended : emp[e].currentLocation.ev > r.after

\* C9: in every state a stored currentLocation with liveUntil set has
\* liveUntil >= updatedAt.
LiveUntilNotBeforeUpdatedAt ==
    \A e \in Employees :
        LET loc == emp[e].currentLocation
        IN  loc.present /\ loc.liveUntil # Null => loc.liveUntil >= loc.updatedAt

\* C10: once the handlers of the events delivered on a chat have completed,
\* currentLocation holds the data of the last delivered event whose write was
\* applied.
LastEventWins ==
    handlers = {} /\ hist.done # {} =>
        \A e \in Employees :
            emp[e].currentLocation.ev = CHOOSE m \in hist.done : \A x \in hist.done : x <= m

\* C11: the sweeper removes (and finalizes) a registry entry only while the
\* entry still satisfies now >= min(liveUntilMs or +infinity, lastUpdateMs +
\* grace): an ingestion that changed the entry after the sweeper evaluated its
\* threshold keeps it from being removed.
RemovedEntryIsExpired ==
    hist.sweep.key # <<>> => hist.sweep.t >= Threshold(hist.sweep.entry)

\* C12: the auto-clock-out write is applied only if the stored attendance
\* document still has the lastClockInTimestamp and values the tick scanned.
AutoClockOutWritesOnScannedState ==
    hist.write.e # "none" =>
        /\ hist.write.before.lastClockInTimestamp = hist.write.given.lastClockInTimestamp
        /\ hist.write.before.values = hist.write.given.values

-----------------------------------------------------------------------------
(* The validator on its own: validateEmployeeLocationAndArea over stored   *)
(* locations, working areas and maximum ages                               *)

\* the default of the maxAgeMinutes parameter
DefaultMaxAgeMinutes == 30
MaxAges == {MAX_LOCATION_AGE_MINUTES, DefaultMaxAgeMinutes}

\* stored currentLocation values around the boundaries of the rules
ValidatorLocations ==
    {NoLocation} \cup
    {Location(pt[1], pt[2], live, updated, until, ended, "c1", "m1") :
        pt \in Points, live \in BOOLEAN,
        updated \in {StartTime, StartTime - 10 * SecPerMin,
                     StartTime - 11 * SecPerMin + 1, StartTime - 11 * SecPerMin,
                     StartTime - 31 * SecPerMin},
        until \in {Null, StartTime - SecPerMin, StartTime, StartTime + SecPerMin},
        ended \in {Null, StartTime - Granule}}

InitValidate ==
    /\ now = StartTime
    /\ emp \in [Employees -> {Employee(w, l) : w \in WorkingAreas,
                                                l \in ValidatorLocations}]
    /\ att = [e \in Employees |-> ClockedInBefore]
    /\ locationLogs = [e \in Employees |-> <<>>]
    /\ liveSessions = [k \in {} |-> 0]
    /\ handlers = {}
    /\ delivered = 0
    /\ sweepAt = Null
    /\ sweep = IdleSweep
    /\ isRunning = FALSE
    /\ intervalId = Null
    /\ warmups = <<>>
    /\ tick = IdleTick
    /\ sent = <<>>
    /\ budget = [startStop |-> 0, human |-> 0, events |-> 0]
    /\ hist = NoHistory

\* a caller validates the stored location of an employee
Validate ==
    /\ hist.verdict.e = "none"
    /\ \E e \in Employees, maxAgeMinutes \in MaxAges :
        hist' = [hist EXCEPT !.verdict =
                    [e |-> e, loc |-> emp[e].currentLocation,
                     area |-> emp[e].workingArea, maxAge |-> maxAgeMinutes,
                     t |-> now,
                     result |-> validateEmployeeLocationAndArea(
                                    emp[e].currentLocation, emp[e].workingArea,
                                    maxAgeMinutes, now)]]
    /\ UNCHANGED <<now, emp, att, liveVars, timerVars, tick, sent, budget>>

NextValidate == Validate

SpecValidate == InitValidate /\ [][NextValidate]_vars

\* C13: the validator returns the verdict of the first matching rule:
\* no location, endedAt set, effectively live (isLive and liveUntil null or
\* now < liveUntil) with an unparseable area, with the point outside, otherwise
\* valid; not effectively live and older than maxAgeMinutes, otherwise not
\* live. At now = liveUntil the location is not live, and a live location is
\* never judged stale.
ValidatorDecisionOrder ==
    hist.verdict.e # "none" =>
        LET v == hist.verdict
            loc == v.loc
            kind == v.result.kind
            live == loc.isLive /\ (loc.liveUntil = Null \/ v.t < loc.liveUntil)
            area == parseWorkingArea(v.area)
            age == (v.t - loc.updatedAt) \div SecPerMin
        IN  /\ ~loc.present => kind = "NO_LOCATION"
            /\ loc.present /\ loc.endedAt # Null => kind = "SHARING_ENDED"
            /\ loc.present /\ loc.endedAt = Null =>
                /\ live /\ ~area.ok => kind = "BAD_WORKING_AREA"
                /\ live /\ area.ok
                     /\ ~isPointInMultiPolygon(<<loc.longitude, loc.latitude>>,
                                               area.polygons)
                   => kind = "OUTSIDE_AREA"
                /\ live /\ area.ok
                     /\ isPointInMultiPolygon(<<loc.longitude, loc.latitude>>,
                                              area.polygons)
                   => kind = "NONE" /\ v.result.isValid
                /\ ~live /\ age > v.maxAge => kind = "STALE_LOCATION"
                /\ ~live /\ age <= v.maxAge => kind = "NOT_LIVE"
                /\ loc.liveUntil = v.t => kind \in {"STALE_LOCATION", "NOT_LIVE"}
                /\ kind = "STALE_LOCATION" => ~live

\* a share marked live is validated at the instant of its liveUntil
ValidatedAtLiveUntil ==
    /\ hist.verdict.e # "none"
    /\ hist.verdict.loc.present
    /\ hist.verdict.loc.isLive
    /\ hist.verdict.loc.endedAt = Null
    /\ hist.verdict.loc.liveUntil = hist.verdict.t
    /\ hist.verdict.result.kind = "NOT_LIVE"

-----------------------------------------------------------------------------
(* The monitor across the end of a month                                   *)

\* the service comes up one minute before the UTC midnight that ends month 0
RolloverStart == SecPerMonth - 2 * WarmUpDelay

\* the employee clocked in ten minutes before that
ClockedInLastDay ==
    [ClockInData(Attendance(Null, 0, NoValues, Null), RolloverStart - 10 * SecPerMin)
        EXCEPT !.lastChanged = RolloverStart - 10 * SecPerMin]

InitRollover ==
    /\ now = RolloverStart
    /\ emp \in [Employees -> {Employee(w, l) : w \in {"", "single"},
                                                l \in StoredLocations}]
    /\ att = [e \in Employees |-> ClockedInLastDay]
    /\ locationLogs = [e \in Employees |-> <<>>]
    /\ liveSessions = [k \in {} |-> 0]
    /\ handlers = {}
    /\ delivered = 0
    /\ sweepAt = Null
    /\ sweep = IdleSweep
    /\ isRunning = FALSE
    /\ intervalId = Null
    /\ warmups = <<>>
    /\ tick = IdleTick
    /\ sent = <<>>
    /\ budget = [startStop |-> MaxStartStop, human |-> MaxHumanOps, events |-> 0]
    /\ hist = NoHistory

AdvanceRollover == Advance(RolloverStart + RolloverSteps * Granule)

NextRollover ==
    \/ AdvanceRollover
    \/ startMonitoring
    \/ stopMonitoring
    \/ WarmUpFire
    \/ IntervalFire
    \/ Scan
    \/ CheckNext
    \/ Notify
    \/ HumanClockIn
    \/ HumanClockOut

SpecRollover == InitRollover /\ [][NextRollover]_vars

\* C15: at every tick whose database is healthy, every attendance document
\* with a clock-in set is in the scan result, also one whose clock-in was in
\* the month before.
ScanFindsEveryOpenClockIn ==
    hist.scan.t # Null => hist.scan.open \subseteq hist.scan.found

\* C16: an ingested event with livePeriodSeconds > 0 leaves the registry entry
\* of its key with liveUntilMs = now + livePeriodSeconds and lastUpdateMs =
\* now, whether or not an entry existed, and writes isLive = true.
UpsertWithDuration ==
    hist.save.key # <<>> /\ hist.save.h.livePeriodSeconds > 0 =>
        LET sv == hist.save
        IN  /\ sv.key \in DOMAIN sv.after
            /\ sv.after[sv.key].liveUntilMs = sv.t + sv.h.livePeriodSeconds
            /\ sv.after[sv.key].lastUpdateMs = sv.t
            /\ sv.data.isLive
            /\ sv.data.liveUntil = sv.t + sv.h.livePeriodSeconds

\* an event with a live period has replaced the duration of an existing entry
DurationReplaced ==
    /\ hist.save.key # <<>>
    /\ hist.save.h.livePeriodSeconds > 0
    /\ hist.save.key \in DOMAIN hist.save.before
    /\ hist.save.before[hist.save.key].liveUntilMs
          # hist.save.after[hist.save.key].liveUntilMs

\* C17: an ingested event with no (or non-positive) livePeriodSeconds whose
\* key has a registry entry advances the entry's lastUpdateMs to now, leaves
\* liveUntilMs and employeeId as they were and writes isLive = true with
\* liveUntil equal to the preserved liveUntilMs.
UpsertExistingWithoutDuration ==
    hist.save.key # <<>> /\ hist.save.h.livePeriodSeconds <= 0
        /\ hist.save.key \in DOMAIN hist.save.before =>
        LET sv == hist.save
            old == sv.before[sv.key]
        IN  /\ sv.key \in DOMAIN sv.after
            /\ sv.after[sv.key].lastUpdateMs = sv.t
            /\ sv.after[sv.key].liveUntilMs = old.liveUntilMs
            /\ sv.after[sv.key].employeeId = old.employeeId
            /\ sv.data.isLive
            /\ sv.data.liveUntil = old.liveUntilMs

\* an update without a live period has refreshed an entry with a duration,
\* later than that entry's last update
DurationPreserved ==
    /\ hist.save.key # <<>>
    /\ hist.save.h.livePeriodSeconds <= 0
    /\ hist.save.key \in DOMAIN hist.save.before
    /\ hist.save.before[hist.save.key].liveUntilMs # Null
    /\ hist.save.before[hist.save.key].lastUpdateMs < hist.save.t

\* C18: an event without a duration for a key with no entry: an edited-message
\* update creates the entry {liveUntilMs = null, lastUpdateMs = now} and
\* writes isLive = true, source telegram_live; a plain message leaves the
\* registry unchanged and writes isLive = false, source telegram.
UpsertUnseenWithoutDuration ==
    hist.save.key # <<>> /\ hist.save.h.livePeriodSeconds <= 0
        /\ hist.save.key \notin DOMAIN hist.save.before =>
        LET sv == hist.save
        IN  IF sv.h.isEdit
            THEN /\ sv.key \in DOMAIN sv.after
                 /\ sv.after[sv.key].liveUntilMs = Null
                 /\ sv.after[sv.key].lastUpdateMs = sv.t
                 /\ sv.data.isLive
                 /\ sv.data.source = "telegram_live"
            ELSE /\ sv.after = sv.before
                 /\ sv.data.isLive = FALSE
                 /\ sv.data.source = "telegram"

\* a static share has been ingested while another key had a registry entry
StaticShareIngested ==
    /\ hist.save.key # <<>>
    /\ hist.save.h.livePeriodSeconds <= 0
    /\ ~hist.save.h.isEdit
    /\ hist.save.key \notin DOMAIN hist.save.before
    /\ DOMAIN hist.save.before # {}
    /\ hist.save.data.source = "telegram"

\* C19: startMonitoring called while the service is running schedules no
\* warm-up timeout and no interval timer and leaves isRunning and the timer
\* as they are; after any calls exactly one interval timer exists while the
\* service is running.
StartIsIdempotent ==
    /\ [](isRunning => hist.intervals = 1 /\ intervalId # Null)
    /\ [][isRunning /\ isRunning' /\ budget'.startStop < budget.startStop =>
            UNCHANGED <<isRunning, intervalId, warmups>>]_vars

\* start has been called twice in a row
StartedAgain ==
    /\ hist.again
    /\ isRunning
    /\ hist.intervals = 1

\* C20: a monitor tick begins only while the service is running (from a start
\* to the next stop), also when the stop falls into the warm-up.
TicksBeginOnlyWhileRunning ==
    [][tick.pc = "idle" /\ tick'.pc = "scan" => isRunning]_vars

\* C23: an auto-clock-out is never written onto an attendance document whose
\* lastClockInTimestamp is null: every write of performAutoClockOut finds the
\* stored document still clocked in.
AutoClockOutNeedsPriorClockIn ==
    hist.write.e # "none" => hist.write.before.lastClockInTimestamp # Null

-----------------------------------------------------------------------------
(* Two clocked-in employees under one monitor that is started once: the     *)
(* ticks of runLocationCheck with several employees in the scan.            *)

Staff == {"e1", "e2"}

\* an attendance row of another day of the month
OtherDay == FreshDay(3, StartTime - 60 * SecPerMin)

\* values stored as an array, with the row of another day
ArrayAttendance == [ClockedInBefore EXCEPT !.values = SetIndex(@, 3, OtherDay)]

\* values stored as a map: the same rows, and a key that is no day index
MapAttendance ==
    [ArrayAttendance EXCEPT !.valuesIsArray = FALSE,
                            !.values = SetIndex(@, 31, FreshDay(31, StartTime))]

\* the row of the clock-in day has no workedHours
MalformedAttendance == [ArrayAttendance EXCEPT !.workedHoursMissing = TRUE]

PairAttendances == {ArrayAttendance, MapAttendance, MalformedAttendance}

\* a fresh static share inside the square, a live share outside it
PairLocations ==
    {Location(5, 5, FALSE, StartTime - SecPerMin, Null, Null, "c1", "m1"),
     Location(5, 15, TRUE, StartTime, Null, Null, "c1", "m1")}

\* employees with a reporting line manager, with and without a chat id
PairEmployees ==
    {[Employee(w, l) EXCEPT !.telegramChatID = c, !.reportingLineManager = "mgr"] :
        w \in {"", " ", "single"}, l \in PairLocations, c \in {"c1", ""}}

InitPair ==
    /\ now = StartTime
    /\ emp \in [Staff -> PairEmployees]
    /\ att \in [Staff -> PairAttendances]
    /\ locationLogs = [e \in Staff |-> <<>>]
    /\ liveSessions = [k \in {} |-> 0]
    /\ handlers = {}
    /\ delivered = 0
    /\ sweepAt = Null
    /\ sweep = IdleSweep
    /\ isRunning = FALSE
    /\ intervalId = Null
    /\ warmups = <<>>
    /\ tick = IdleTick
    /\ sent = <<>>
    /\ budget = [startStop |-> 1, human |-> 0, events |-> 0]
    /\ hist = [NoHistory EXCEPT
                 !.auto = [e \in Staff |-> [n |-> 0, last |-> Null, prev |-> Null]]]

AdvancePair == Advance(StartTime + PairSteps * Granule)

NextPair ==
    \/ AdvancePair
    \/ startMonitoring
    \/ WarmUpFire
    \/ IntervalFire
    \/ Scan
    \/ CheckNext
    \/ Notify

SpecPair == InitPair /\ [][NextPair]_vars

-----------------------------------------------------------------------------
(* Ticks over several employees                                             *)

\* C21: whatever the check of the scanned employee at the head of the tick's
\* list does (it returns, it throws on a malformed row, its write fails, the
\* manager is not found), the tick checks exactly that employee and goes on
\* with the rest of the list: the others stay to be checked.
TickGoesOnAfterEachEmployee ==
    [][tick.pc = "check" /\ tick' # tick
          => /\ hist'.check.e = tick.queue[1].e
             /\ tick'.queue = Tail(tick.queue)
             /\ Len(tick.queue) > 1 => tick'.pc = "check"]_vars

\* an employee is clocked out in a tick after the check of another one failed
ClockedOutAfterFailureOfAnother ==
    /\ hist.check.e # "none"
    /\ hist.check.outcome = "written"
    /\ hist.check.earlier \cap {"error", "write_failed"} # {}

NoWorkingAreaIsSkipped ==
    /\ \A e \in DOMAIN emp :
        emp[e].workingArea \in {"", " "}
            => /\ hist.auto[e].n = 0
               /\ att[e] \in PairAttendances
               /\ \A i \in 1..Len(sent) : sent[i].about # e
    /\ hist.check.e # "none" /\ hist.check.area \in {"", " "}
            => hist.check.outcome = "no_area"

\* an employee with a blank working area and a live location outside the
\* square has been checked
SkippedOutsideWithoutArea ==
    /\ hist.check.e # "none"
    /\ hist.check.area = " "
    /\ hist.check.outcome = "no_area"
    /\ emp[hist.check.e].currentLocation
            = Location(5, 15, TRUE, StartTime, Null, Null, "c1", "m1")

\* C25: the values written by an auto-clock-out are an array; every row of the
\* stored array other than the one of the clock-in day is in it unchanged at
\* its index, and when the stored values were a map, so is every row stored
\* under a key from 0 to 30.
WrittenValuesKeepShape ==
    hist.write.e # "none" =>
        LET before == hist.write.before
            after == hist.write.after
            day == DateOf(before.lastClockInTimestamp) - 1
            kept == IF before.valuesIsArray THEN DOMAIN before.values
                    ELSE {k \in DOMAIN before.values : k >= 0 /\ k < 31}
        IN  /\ after.valuesIsArray
            /\ DOMAIN after.values \subseteq Nat
            /\ kept \subseteq DOMAIN after.values
            /\ \A k \in kept \ {day} : after.values[k] = before.values[k]
            /\ day \in DOMAIN after.values

\* an auto-clock-out has been written on values stored as a map with rows of
\* other days
MapValuesWritten ==
    /\ hist.write.e # "none"
    /\ ~hist.write.before.valuesIsArray
    /\ DOMAIN hist.write.before.values = {0, 3, 31}

\* C26: every message sent is about an employee whose auto-clock-out was
\* written in the tick that sends it, and messages are sent only when the
\* tick has no scanned employee left to check.
MessagesFollowWrites ==
    /\ [](\A i \in 1..Len(sent) : hist.auto[sent[i].about].last = sent[i].t)
    /\ [][sent' # sent => tick.pc = "notify" /\ tick.queue = <<>>]_vars

\* messages about two employees have been sent
BothEmployeesNotified ==
    \E i, j \in 1..Len(sent) : sent[i].about # sent[j].about

\* C27: for a successful auto-clock-out whose manager has a chat id, the
\* message to the manager is among the messages sent for it.
ManagerAlwaysNotified ==
    hist.notified.e # "none"
        /\ hist.notified.result.success
        /\ hist.notified.result.managerChatID # ""
    => \E i \in 1..Len(hist.notified.messages) :
            hist.notified.messages[i].to = hist.notified.result.managerChatID

-----------------------------------------------------------------------------
(* The geometry functions of util/locationValidation.ts on their own        *)

\* the ring of an axis-aligned rectangle
RectRing(x1, y1, x2, y2) == <<<<x1, y1>>, <<x2, y1>>, <<x2, y2>>, <<x1, y2>>>>

\* the same ring started k vertices later, and in the other direction
Turn(ring, k) == [i \in 1..Len(ring) |-> ring[((i + k - 1) % Len(ring)) + 1]]
Reversed(ring) == [i \in 1..Len(ring) |-> ring[Len(ring) + 1 - i]]

Rectangles ==
    {RectRing(0, 0, 10, 10), RectRing(0, 0, 20, 10), RectRing(10, 4, 20, 12)}

Rings ==
    {Turn(r, k) : r \in Rectangles, k \in 0..3}
        \cup {Reversed(Turn(r, k)) : r \in Rectangles, k \in 0..3}

\* points as [lng, lat]
GridPoints == {<<x, y>> : x \in {0 - 1, 0, 5, 10, 15, 20, 25},
                          y \in {0 - 1, 0, 5, 10, 11, 15}}

\* polygons with one ring and with a hole
SquarePolygon == <<RectRing(0, 0, 10, 10)>>
HoledPolygon == <<RectRing(0, 0, 10, 10), RectRing(4, 4, 6, 6)>>
FarPolygon == <<RectRing(20, 0, 30, 10), RectRing(0, 0, 10, 10)>>

MultiPolygons ==
    {<<SquarePolygon>>, <<HoledPolygon>>, <<FarPolygon>>,
     <<HoledPolygon, FarPolygon>>, <<FarPolygon, HoledPolygon>>,
     <<FarPolygon, SquarePolygon>>, <<SquarePolygon, HoledPolygon, FarPolygon>>}

InitGeometry ==
    /\ now = StartTime
    /\ emp = [e \in Employees |-> Employee("single", NoLocation)]
    /\ att = [e \in Employees |-> ClockedInBefore]
    /\ locationLogs = [e \in Employees |-> <<>>]
    /\ liveSessions = [k \in {} |-> 0]
    /\ handlers = {}
    /\ delivered = 0
    /\ sweepAt = Null
    /\ sweep = IdleSweep
    /\ isRunning = FALSE
    /\ intervalId = Null
    /\ warmups = <<>>
    /\ tick = IdleTick
    /\ sent = <<>>
    /\ budget = [startStop |-> 0, human |-> 0, events |-> 0]
    /\ hist = NoHistory

\* a caller parses a working-area string
ParseArea ==
    /\ hist.geo.op = "none"
    /\ \E w \in WorkingAreas :
        hist' = [hist EXCEPT !.geo = [op |-> "parse", area |-> w,
                                      result |-> parseWorkingArea(w)]]
    /\ UNCHANGED <<now, emp, att, liveVars, timerVars, tick, sent, budget>>

\* a caller tests a point against a ring
PointInPolygon ==
    /\ hist.geo.op = "none"
    /\ \E point \in GridPoints, polygon \in Rings :
        hist' = [hist EXCEPT !.geo = [op |-> "polygon", point |-> point,
                                      polygon |-> polygon,
                                      result |-> isPointInPolygon(point, polygon)]]
    /\ UNCHANGED <<now, emp, att, liveVars, timerVars, tick, sent, budget>>

\* a caller tests a point against a multi-polygon
PointInMultiPolygon ==
    /\ hist.geo.op = "none"
    /\ \E point \in GridPoints, multiPolygon \in MultiPolygons :
        hist' = [hist EXCEPT !.geo = [op |-> "multi", point |-> point,
                                      multiPolygon |-> multiPolygon,
                                      result |-> isPointInMultiPolygon(
                                                     point, multiPolygon)]]
    /\ UNCHANGED <<now, emp, att, liveVars, timerVars, tick, sent, budget>>

NextGeometry ==
    \/ ParseArea
    \/ PointInPolygon
    \/ PointInMultiPolygon

SpecGeometry == InitGeometry /\ [][NextGeometry]_vars

\* C28: parseWorkingArea accepts every well-formed working area, a single
\* polygon (with or without a hole) and a multi-polygon of one or of several
\* polygons, and the outer rings of its result are the outer rings of the
\* input, so that containment on the result is containment in the input.
ParseAcceptsWellFormed ==
    hist.geo.op = "parse"
        /\ hist.geo.area \in {"single", "holed", "multi1", "multi2"}
    => LET val == WorkingAreaText(hist.geo.area).val
           outer == IF hist.geo.area \in {"single", "holed"}
                    THEN <<PlainRing(val.v[1])>>
                    ELSE [k \in 1..Len(val.v) |-> PlainRing(val.v[k].v[1])]
           result == hist.geo.result
       IN  /\ result.ok
           /\ Len(result.polygons) = Len(outer)
           /\ \A k \in 1..Len(outer) : result.polygons[k][1] = outer[k]
           /\ \A point \in GridPoints :
                isPointInMultiPolygon(point, result.polygons)
                    = \E k \in 1..Len(outer) : isPointInPolygon(point, outer[k])

\* C29: a point is in a multi-polygon exactly if the ray cast puts it inside
\* the first ring of one of the polygons; the other rings of the polygons and
\* the order of the polygons make no difference.
OuterRingsDecide ==
    hist.geo.op = "multi" =>
        LET point == hist.geo.point
            multiPolygon == hist.geo.multiPolygon
            n == Len(multiPolygon)
        IN  /\ hist.geo.result
                = \E k \in 1..n : isPointInPolygon(point, multiPolygon[k][1])
            /\ hist.geo.result
                = isPointInMultiPolygon(point,
                        [k \in 1..n |-> <<multiPolygon[k][1]>>])
            /\ hist.geo.result
                = isPointInMultiPolygon(point,
                        [k \in 1..n |-> multiPolygon[n + 1 - k]])

\* a point in the hole of a polygon, which follows another polygon, is found
\* inside the multi-polygon
InsideHoleOfLaterPolygon ==
    /\ hist.geo.op = "multi"
    /\ hist.geo.point = <<5, 5>>
    /\ hist.geo.multiPolygon = <<FarPolygon, HoledPolygon>>
    /\ hist.geo.result

\* C30: for the square (0,0),(10,0),(10,10),(0,10) the ray cast reports
\* (5,5) inside, (15,5) and (-1,5) outside; for every axis-aligned rectangle,
\* whatever vertex its ring starts at and whichever way it runs, a point
\* strictly inside is reported inside and a point strictly outside the
\* bounding box is reported outside.
RayCastOnRectangles ==
    hist.geo.op = "polygon" =>
        LET x == hist.geo.point[1]
            y == hist.geo.point[2]
            ring == hist.geo.polygon
            xs == {ring[i][1] : i \in 1..Len(ring)}
            ys == {ring[i][2] : i \in 1..Len(ring)}
            strictlyInside == /\ \E a \in xs : a < x
                              /\ \E a \in xs : x < a
                              /\ \E b \in ys : b < y
                              /\ \E b \in ys : y < b
            outsideBox == \/ \A a \in xs : x < a
                          \/ \A a \in xs : a < x
                          \/ \A b \in ys : y < b
                          \/ \A b \in ys : b < y
        IN  /\ strictlyInside => hist.geo.result
            /\ outsideBox => ~hist.geo.result
            /\ ring = RectRing(0, 0, 10, 10) =>
                    /\ hist.geo.point = <<5, 5>> => hist.geo.result
                    /\ hist.geo.point \in {<<15, 5>>, <<0 - 1, 5>>} => ~hist.geo.result

\* the centre of the square has been tested against the square
CentreOfSquareInside ==
    /\ hist.geo.op = "polygon"
    /\ hist.geo.polygon = RectRing(0, 0, 10, 10)
    /\ hist.geo.point = <<5, 5>>
    /\ hist.geo.result

-----------------------------------------------------------------------------
(* Attendance rows under human and automatic clock-ins and clock-outs       *)

\* C31: in every day of every attendance document the workedHours entries
\* have non-decreasing timestamps, and every write that changes the entries
\* of a day leaves as their last entry one stamped with the time of the write.
WorkedHoursInTimeOrder ==
    /\ [](\A e \in DOMAIN att : \A k \in DOMAIN att[e].values :
            LET w == att[e].values[k].workedHours
            IN  \A i \in 1..Len(w) : \A j \in i..Len(w) :
                    w[i].timestamp <= w[j].timestamp)
    /\ [][\A e \in DOMAIN att : \A k \in DOMAIN att'[e].values :
            (k \notin DOMAIN att[e].values
                \/ att'[e].values[k].workedHours # att[e].values[k].workedHours)
            => LET w == att'[e].values[k].workedHours
               IN  w # <<>> /\ w[Len(w)].timestamp = now]_vars

\* a day holds entries written by hand and by an auto-clock-out
MixedEntriesInOneDay ==
    \E e \in DOMAIN att : \E k \in DOMAIN att[e].values :
        /\ Len(att[e].values[k].workedHours) >= 4
        /\ hist.auto[e].n >= 1

\* C32: a human clock-out adds the time since the clock-in to the day's
\* dailyWorkedHours and sets the day's value to P if that reaches the present
\* threshold (percent of the expected daily hours), else to H if it reaches
\* the half-present threshold, else to A; an auto-clock-out sets the value
\* to A whatever the worked hours.
ClockOutClassification ==
    /\ hist.human.e # "none" /\ hist.human.type = "Clock Out"
        => LET before == hist.human.before
               cfg == hist.human.cfg
               idx == DateOf(before.lastClockInTimestamp) - 1
               day == hist.human.after.values[idx]
               earlier == IF idx \in DOMAIN before.values
                          THEN before.values[idx].dailyWorkedHours ELSE 0
               d == earlier + (hist.human.t - before.lastClockInTimestamp)
           IN  /\ day.dailyWorkedHours = d
               /\ day.value =
                    IF d * 100 >= cfg.dailyWorkingHour * cfg.presentThreshold
                    THEN "P"
                    ELSE IF d * 100 >= cfg.dailyWorkingHour * cfg.halfPresentThreshold
                    THEN "H" ELSE "A"
    /\ hist.write.e # "none"
        => LET idx == DateOf(hist.write.given.lastClockInTimestamp) - 1
           IN  hist.write.after.values[idx].value = "A"

\* a human clock-out exactly at the half-present threshold is classified H
HalfPresentAtThreshold ==
    /\ hist.human.e # "none"
    /\ hist.human.type = "Clock Out"
    /\ LET idx == DateOf(hist.human.before.lastClockInTimestamp) - 1
           day == hist.human.after.values[idx]
       IN  /\ day.value = "H"
           /\ day.dailyWorkedHours * 100
                = hist.human.cfg.dailyWorkingHour * hist.human.cfg.halfPresentThreshold

-----------------------------------------------------------------------------
(* The monitor started, stopped and started again                           *)

InitOverlap ==
    /\ now = StartTime
    /\ emp \in [Employees -> {Employee("single", l) : l \in StoredLocations}]
    /\ att = [e \in Employees |-> ClockedInBefore]
    /\ locationLogs = [e \in Employees |-> <<>>]
    /\ liveSessions = [k \in {} |-> 0]
    /\ handlers = {}
    /\ delivered = 0
    /\ sweepAt = Null
    /\ sweep = IdleSweep
    /\ isRunning = FALSE
    /\ intervalId = Null
    /\ warmups = <<>>
    /\ tick = IdleTick
    /\ sent = <<>>
    /\ budget = [startStop |-> MaxStartStop + 1, human |-> 0, events |-> 0]
    /\ hist = NoHistory

AdvanceOverlap == Advance(StartTime + OverlapSteps * Granule)

NextOverlap ==
    \/ AdvanceOverlap
    \/ startMonitoring
    \/ stopMonitoring
    \/ WarmUpFire
    \/ IntervalFire
    \/ Scan
    \/ CheckNext
    \/ Notify

SpecOverlap == InitOverlap /\ [][NextOverlap]_vars

\* C36: no run of runLocationCheck begins while another one is in flight.
OneTickInFlight == tick.waiting = 0

-----------------------------------------------------------------------------
(* The tracker with events of a chat that belongs to no employee            *)

AdvanceContext == Advance(StartTime + ContextSteps * Granule)

NextContext ==
    \/ AdvanceContext
    \/ DeliverAny
    \/ Save
    \/ ApplyUpdate
    \/ SweepFire
    \/ SweepStep
    \/ SweepFinalize

SpecContext == InitLive /\ [][NextContext]_vars

\* C33: the handler of a location event whose chat belongs to no employee ends
\* without changing the live-session registry, an employee document or a
\* locationLogs collection; no registry entry and no stored location ever
\* carries such a chat.
UnresolvedEventHasNoEffect ==
    /\ [][\A h \in handlers :
            (\A e \in DOMAIN emp : emp[e].telegramChatID # h.chatId)
                => \/ h \in handlers'
                   \/ UNCHANGED <<liveSessions, emp, locationLogs>>]_vars
    /\ [](\A k \in DOMAIN liveSessions :
            \E e \in DOMAIN emp : emp[e].telegramChatID = k[1])
    /\ [](\A e \in DOMAIN emp :
            emp[e].currentLocation.present /\ emp[e].currentLocation.liveChatId # ""
                => \E f \in DOMAIN emp :
                        emp[f].telegramChatID = emp[e].currentLocation.liveChatId)

\* an event of an unknown chat has been dropped while a live session of the
\* employee is tracked and stored
DroppedBesideLiveSession ==
    /\ hist.dropped # {}
    /\ DOMAIN liveSessions # {}
    /\ \E e \in DOMAIN emp : emp[e].currentLocation.present

-----------------------------------------------------------------------------
(* Stored live state against the registry                                   *)

\* C34: whenever no handler and no sweeper pass is in flight, an employee
\* whose stored currentLocation is live and not ended has an entry in the
\* live-session registry under the location's chat and message.
NoOrphanLiveState ==
    Quiet =>
        \A e \in DOMAIN emp :
            LET loc == emp[e].currentLocation
            IN  loc.present /\ loc.isLive /\ loc.endedAt = Null
                    => makeLiveKey(loc.liveChatId, loc.liveMessageId)
                            \in DOMAIN liveSessions

\* C35: the finalization of a registry entry leaves the stored currentLocation
\* as it is when that holds the live location of another session (another
\* liveChatId or liveMessageId than the entry's key): a newer live session is
\* not ended by the expiry of an older entry.
FinalizationOfOwnSession ==
    hist.sweep.key # <<>> /\ hist.sweep.ok
        /\ hist.sweep.was.present /\ hist.sweep.was.isLive
        /\ makeLiveKey(hist.sweep.was.liveChatId, hist.sweep.was.liveMessageId)
                # hist.sweep.key
    => hist.sweep.doc = hist.sweep.was

-----------------------------------------------------------------------------
(* What an auto-clock-out changes in the stored attendance document         *)

\* C37: a successful auto-clock-out leaves every row of the stored values
\* other than the one of the clock-in day as it was, adds no other row, and
\* in the row of the clock-in day keeps the stored workedHours entries in
\* their order, with one Clock Out entry appended.
AutoClockOutFrame ==
    hist.write.e # "none" =>
        LET before == hist.write.before
            after == hist.write.after
            idx == DateOf(hist.write.given.lastClockInTimestamp) - 1
            stored == IF idx \in DOMAIN before.values
                      THEN before.values[idx].workedHours ELSE <<>>
        IN  /\ DOMAIN after.values \ {idx} = DOMAIN before.values \ {idx}
            /\ \A k \in DOMAIN before.values \ {idx} :
                    after.values[k] = before.values[k]
            /\ after.values[idx].workedHours
                    = Append(stored, WorkedHoursEntry("Clock Out", hist.write.t))
            /\ after.month = before.month

\* the sum of dailyWorkedHours over the rows of a document
SumOfDays(a) ==
    LET RECURSIVE sum(_)
        sum(S) == IF S = {} THEN 0
                  ELSE LET k == CHOOSE x \in S : TRUE
                       IN  a.values[k].dailyWorkedHours + sum(S \ {k})
    IN  sum(DOMAIN a.values)

\* C38: no write to an attendance document, by an auto-clock-out or by hand,
\* changes the difference between monthlyWorkedHours and the sum of
\* dailyWorkedHours over its days, and none lowers either of the two.
TalliesAgree ==
    [][\A e \in DOMAIN att :
        /\ att'[e].monthlyWorkedHours - SumOfDays(att'[e])
                = att[e].monthlyWorkedHours - SumOfDays(att[e])
        /\ att'[e].monthlyWorkedHours >= att[e].monthlyWorkedHours
        /\ SumOfDays(att'[e]) >= SumOfDays(att[e])]_vars

\* hours have been added by an auto-clock-out and by a human clock-out
BothClockOutsTallied ==
    /\ hist.human.e # "none"
    /\ hist.auto[hist.human.e].n >= 1
    /\ hist.human.after.monthlyWorkedHours > hist.human.before.monthlyWorkedHours
    /\ hist.human.before.monthlyWorkedHours > 0

-----------------------------------------------------------------------------
(* The location-only validators: validateEmployeeLocation, hasValidLocation *)

MsgExpired == <<"Live", "location", "sharing", "has", "expired">>

\* lines 25-94
validateEmployeeLocation(loc, maxAgeMinutes, t) ==
    IF ~loc.present THEN
        Verdict(FALSE, "NO_LOCATION", MsgNoLocation, Null, "null")
    ELSE IF loc.endedAt # Null THEN
        Verdict(FALSE, "SHARING_ENDED", MsgEnded, Null, "null")
    ELSE
        LET ageMinutes == DiffMinutes(t, loc.updatedAt)
            live == IF loc.isLive THEN "true" ELSE "null"
        IN  IF ageMinutes > maxAgeMinutes THEN
                Verdict(FALSE, "STALE_LOCATION", MsgStale(ageMinutes), ageMinutes, live)
            ELSE IF loc.isLive /\ loc.liveUntil # Null /\ t > loc.liveUntil THEN
                Verdict(FALSE, "LIVE_EXPIRED", MsgExpired, ageMinutes, "false")
            ELSE
                Verdict(TRUE, "NONE", <<>>, ageMinutes, live)

\* a check for which a share has expired at the instant liveUntil
hasValidLocationUntilBefore(loc, maxAgeMinutes, t) ==
    /\ loc.present
    /\ loc.endedAt = Null
    /\ ~(DiffMinutes(t, loc.updatedAt) > maxAgeMinutes)
    /\ ~(loc.isLive /\ loc.liveUntil # Null /\ t >= loc.liveUntil)

\* lines 332-363
hasValidLocation(loc, maxAgeMinutes, t) ==
    /\ loc.present
    /\ loc.endedAt = Null
    /\ ~(DiffMinutes(t, loc.updatedAt) > maxAgeMinutes)
    /\ ~(loc.isLive /\ loc.liveUntil # Null /\ t > loc.liveUntil)

\* a caller asks both functions about the stored location of an employee
CheckLocation ==
    /\ hist.location.e = "none"
    /\ \E e \in Employees, maxAgeMinutes \in MaxAges :
        hist' = [hist EXCEPT !.location =
                    [e |-> e, loc |-> emp[e].currentLocation,
                     maxAge |-> maxAgeMinutes, t |-> now,
                     result |-> validateEmployeeLocation(
                                    emp[e].currentLocation, maxAgeMinutes, now),
                     has |-> hasValidLocation(
                                    emp[e].currentLocation, maxAgeMinutes, now)]]
    /\ UNCHANGED <<now, emp, att, liveVars, timerVars, tick, sent, budget>>

NextLocation == CheckLocation

SpecLocation == InitValidate /\ [][NextLocation]_vars

\* C39: for every stored location, none included, and every maxAgeMinutes,
\* hasValidLocation is true exactly if validateEmployeeLocation, asked at the
\* same time, returns isValid.
ValidatorsAgree ==
    hist.location.e # "none" => (hist.location.has <=> hist.location.result.isValid)

\* both accept a live share at the very instant of its liveUntil
AcceptedAtLiveUntil ==
    /\ hist.location.e # "none"
    /\ hist.location.loc.present
    /\ hist.location.loc.isLive
    /\ hist.location.loc.liveUntil = hist.location.t
    /\ hist.location.has
    /\ hist.location.result.isValid

====
